---- MODULE Spec2Model ----
(***************************************************************************)
(* Model of the video processing service: the upload-to-download pipeline  *)
(* (POST /api/process), the lookup (GET /api/video/:id) and the static     *)
(* download route (GET /downloads/:filename), over a model of the file     *)
(* system the handlers share.                                              *)
(*                                                                         *)
(* Characters are their ASCII codes, file names are sequences of           *)
(* characters, paths are sequences of path segments.                       *)
(***************************************************************************)
EXTENDS Integers, Sequences, FiniteSets, TLC

\* ------------------------------------------------------------------ bounds
MaxReq == 2            \* POST /api/process requests in one behaviour

\* --------------------------------------------------------------- alphabet
None == <<>>           \* an unset (undefined) value; a set value v is <<v>>
Some(v) == <<v>>
DOT == 46
SLASH == 47

\* the values uuidv4() can return: "11", "12", "21", "22"
Tokens == {<<49, 49>>, <<49, 50>>, <<50, 49>>, <<50, 50>>}

\* ------------------------------------------------------------ path module
\* path.normalize on a list of segments: ".." removes the segment before it
RECURSIVE Normalize(_, _)
Normalize(segs, acc) ==
  IF segs = <<>> THEN acc
  ELSE IF Head(segs) = ".."
       THEN Normalize(Tail(segs), IF acc = <<>> THEN acc ELSE SubSeq(acc, 1, Len(acc) - 1))
       ELSE Normalize(Tail(segs), Append(acc, Head(segs)))

\* path.join(base, ..., p): every argument is appended, a leading "/" of a
\* later argument does not restart the path
pathJoin(base, p) == Normalize(base \o p.segs, <<>>)

\* path.resolve(base, ..., p): an absolute later argument replaces all
\* that precedes it
pathResolve(base, p) ==
  IF p.abs THEN Normalize(p.segs, <<>>) ELSE Normalize(base \o p.segs, <<>>)

RECURSIVE LastIndexOf(_, _)
LastIndexOf(s, c) ==
  IF s = <<>> THEN 0
  ELSE IF s[Len(s)] = c THEN Len(s) ELSE LastIndexOf(SubSeq(s, 1, Len(s) - 1), c)

\* path.basename: what follows the last "/"
basename(name) == SubSeq(name, LastIndexOf(name, SLASH) + 1, Len(name))

\* path.extname: from the last "." of the basename to its end; empty when
\* there is no "." or the "." opens the basename, and for the basename ".."
extname(name) ==
  LET b == basename(name)
      i == LastIndexOf(b, DOT)
  IN IF i <= 1 \/ b = <<DOT, DOT>> THEN <<>> ELSE SubSeq(b, i, Len(b))

\* variants of startsWith: strict equality, and String.prototype.includes
startsWith_equals(s, p) == s = p
startsWith_includes(s, p) ==
  \E i \in 1..(Len(s) + 1) : i + Len(p) - 1 <= Len(s) /\ SubSeq(s, i, i + Len(p) - 1) = p

\* String.prototype.startsWith
startsWith(s, p) == Len(p) <= Len(s) /\ SubSeq(s, 1, Len(p)) = p

\* strcmp order of two names
RECURSIVE StrLess(_, _)
StrLess(a, b) ==
  IF b = <<>> THEN FALSE
  ELSE IF a = <<>> THEN TRUE
  ELSE IF Head(a) # Head(b) THEN Head(a) < Head(b)
  ELSE StrLess(Tail(a), Tail(b))

\* --------------------------------------------------------- configuration
ProjectRoot == <<"app">>
IndexDirname == ProjectRoot \o <<"src">>
ControllersDirname == ProjectRoot \o <<"src", "controllers">>
MiddlewareDirname == ProjectRoot \o <<"src", "middleware">>
UtilsDirname == ProjectRoot \o <<"src", "utils">>

Rel(segs) == [abs |-> FALSE, segs |-> segs]
Abs(segs) == [abs |-> TRUE, segs |-> segs]

DefaultMaxFileSize == 100000000
DefaultPort == 3000

\* the configuration with no variable set: the artifact directory is the
\* relative default
DefaultEnv ==
  [PROCESSED_DIR |-> None, BASE_URL |-> None, MAX_FILE_SIZE |-> None,
   NODE_ENV |-> None, API_KEY |-> None, ALLOWED_ORIGINS |-> None]
\* a configuration with every variable set and an absolute artifact directory
ConfiguredEnv ==
  [PROCESSED_DIR |-> Some(Abs(<<"data", "out">>)),
   BASE_URL |-> Some("https://api.example.com"),
   MAX_FILE_SIZE |-> Some(2000000),
   NODE_ENV |-> None, API_KEY |-> None, ALLOWED_ORIGINS |-> None]
\* a production configuration: the shared secret and the allowed origins
\* (the pieces of ALLOWED_ORIGINS between its commas) are set
ProductionEnv ==
  [PROCESSED_DIR |-> None, BASE_URL |-> None, MAX_FILE_SIZE |-> None,
   NODE_ENV |-> Some("production"), API_KEY |-> Some("k1"),
   ALLOWED_ORIGINS |-> Some(<<"https://app.example.com", "https://admin.example.com">>)]
\* a development configuration: the shared secret is set all the same
DevelopmentEnv ==
  [PROCESSED_DIR |-> None, BASE_URL |-> None, MAX_FILE_SIZE |-> None,
   NODE_ENV |-> Some("development"), API_KEY |-> Some("k1"),
   ALLOWED_ORIGINS |-> None]

\* env, dirs, files: the configuration and the file system
\* req, resp, usedIds: the POST /api/process requests and their answers
\* getResp: the last answer of a GET route
\* hits, slot: the store of the rate limiter and the time, in half windows
\* gate: the last request seen by the middleware in front of the routes
\* admitted: per client, the requests the limiter let through in the
\*   previous and in the current half window (a history of the behaviour)
\* proc: the node process, running or exited with a code
\* boot: the FFmpeg check that index.js starts, and the host it runs on
\* disconnected: the process calls whose client closed the connection
VARIABLES env, dirs, files, req, resp, usedIds, getResp, hits, slot, gate, admitted,
          proc, boot, disconnected

vars == <<env, dirs, files, req, resp, usedIds, getResp, hits, slot, gate, admitted,
          proc, boot, disconnected>>
hostVars == <<proc, boot, disconnected>>
routeVars == <<env, dirs, files, req, resp, usedIds, getResp>>
gateVars == <<hits, slot, gate, admitted>>

Clients == {"10.0.0.1", "10.0.0.2"}

Reqs == 1..MaxReq

\* process.env.PROCESSED_DIR || 'processed'
ProcessedDirSetting == IF env.PROCESSED_DIR = None THEN Rel(<<"processed">>) ELSE env.PROCESSED_DIR[1]
\* process.env.UPLOAD_DIR || 'uploads'
UploadDirSetting == Rel(<<"uploads">>)

\* the directory multer stages uploads in
UploadDir == pathJoin(MiddlewareDirname \o <<"..", "..">>, UploadDirSetting)
\* the directory processVideoController writes the artifact to
ProcessDir == pathResolve(ControllersDirname \o <<"..", "..">>, ProcessedDirSetting)
\* the directory getVideoController scans
LookupDir == pathResolve(ControllersDirname \o <<"..", "..">>, ProcessedDirSetting)
\* the directory /downloads serves from
DownloadsDir == pathJoin(IndexDirname \o <<"..">>, ProcessedDirSetting)
\* the directories setupDirectories creates
SetupUploadDir == pathJoin(UtilsDirname \o <<"..", "..">>, UploadDirSetting)
SetupProcessedDir == pathJoin(UtilsDirname \o <<"..", "..">>, ProcessedDirSetting)

\* fs.mkdirSync(dir, {recursive: true}): the directory and its ancestors
mkdirRecursive(ds, dir) == ds \cup {SubSeq(dir, 1, n) : n \in 1..Len(dir)}

setupDirectories == mkdirRecursive(mkdirRecursive({ProjectRoot}, SetupUploadDir), SetupProcessedDir)

\* BASE_URL || `http://localhost:${PORT || 3000}`
baseUrl == IF env.BASE_URL = None THEN <<"http://localhost:", ToString(DefaultPort)>> ELSE env.BASE_URL

\* `${baseUrl}/downloads/${filename}`
downloadUrlOf(filename) == [base |-> baseUrl, path |-> <<"downloads", filename>>]


\* ------------------------------------------------------------ file system
\* a file is [dir, name, by, kind]: the request that wrote it and whether
\* it is a staged upload, an output being written, or a finished output
existsSync(fs, dir, name) == \E f \in fs : f.dir = dir /\ f.name = name

\* fs.unlinkSync of a path that exists
unlinkSync(fs, dir, name) == {f \in fs : ~(f.dir = dir /\ f.name = name)}

writeFile(fs, dir, name, r, kind) ==
  unlinkSync(fs, dir, name) \cup {[dir |-> dir, name |-> name, by |-> r, kind |-> kind]}

NamesIn(fs, dir) == {f.name : f \in {g \in fs : g.dir = dir}}

RECURSIVE SortNames(_)
SortNames(S) ==
  IF S = {} THEN <<>>
  ELSE LET m == CHOOSE x \in S : \A y \in S \ {x} : StrLess(x, y)
       IN <<m>> \o SortNames(S \ {m})

\* fs.readdirSync: the entry names of the directory, in strcmp order
readdirSync(fs, dir) == SortNames(NamesIn(fs, dir))

\* Array.prototype.find with the predicate file => file.startsWith(id)
RECURSIVE findStartsWith(_, _)
findStartsWith(list, id) ==
  IF list = <<>> THEN None
  ELSE IF startsWith(Head(list), id) THEN Some(Head(list))
  ELSE findStartsWith(Tail(list), id)

\* ------------------------------------------------------------------ errors
RECURSIVE FirstDigit(_)
FirstDigit(n) == IF n < 10 THEN n ELSE FirstDigit(n \div 10)

\* createError(statusCode, message)
createError(statusCode, message) ==
  [statusCode |-> statusCode,
   message |-> message,
   status |-> IF FirstDigit(statusCode) = 4 THEN "fail" ELSE "error"]

\* the cleanup of errorHandler: the staged file of req.file, when it exists
errorHandlerCleanup(fs, r) ==
  IF req[r].file # None /\ existsSync(fs, req[r].file[1].dir, req[r].file[1].name)
  THEN unlinkSync(fs, req[r].file[1].dir, req[r].file[1].name)
  ELSE fs

\* err.stack of an Error built from a message
stackOf(err) == <<"Error: ", err.message, "    at ...">>

\* variant: the stack is sent unless the mode is production
exposeStack_unlessProduction == env.NODE_ENV # Some("production")

\* process.env.NODE_ENV === 'development'
exposeStack == env.NODE_ENV = Some("development")

\* the response of errorHandler
errorHandlerResponse(err) ==
  LET statusCode == IF err.statusCode # 0 THEN err.statusCode ELSE 500
      message == IF err.message # <<>> THEN err.message ELSE <<"Something went wrong">>
      status == IF err.status # "" THEN err.status ELSE "error"
  IN [code |-> statusCode,
      body |-> IF exposeStack
               THEN [status |-> status, message |-> message, stack |-> stackOf(err)]
               ELSE [status |-> status, message |-> message]]

\* variant: the error is swallowed, no response is written
NextError_swallowed(r, err, fs) ==
  /\ files' = errorHandlerCleanup(fs, r)
  /\ resp' = resp

\* next(err) from a handler of request r: errorHandler answers the request
NextError(r, err, fs) ==
  /\ files' = errorHandlerCleanup(fs, r)
  /\ resp' = [resp EXCEPT ![r] = Some(errorHandlerResponse(err))]


\* ------------------------------------------------------------------ inputs
\* client file names: "v.m", "v"
NameWithExt == <<118, DOT, 109>>
NameNoExt == <<118>>
OriginalNames == {NameWithExt, NameNoExt}
Diagnostics == {"ffmpeg exited with code 1", "spawn ffmpeg ENOENT"}

\* the file parts a request can carry: a video within every limit, a video
\* over every limit, and a file that declares a type that is no video
Uploads ==
  {[originalname |-> NameWithExt, mimetype |-> "video/mp4", size |-> 2000000],
   [originalname |-> NameWithExt, mimetype |-> "video/webm", size |-> 100000001],
   [originalname |-> NameNoExt, mimetype |-> "image/png", size |-> 2000000]}

\* the multipart bodies: no file part, a file in the field video, a file
\* in another field
Bodies ==
  {[field |-> "none", upload |-> None]}
  \cup {[field |-> "video", upload |-> Some(u)] : u \in Uploads}
  \cup {[field |-> "other", upload |-> Some(u)] : u \in {v \in Uploads : v.originalname = NameNoExt}}

\* variant of the allow-list that lets an image type through
allowedMimeTypes_withImages ==
  {"video/mp4", "video/mpeg", "video/quicktime", "video/x-msvideo",
   "video/x-ms-wmv", "video/webm", "video/ogg", "image/png"}

allowedMimeTypes ==
  {"video/mp4", "video/mpeg", "video/quicktime", "video/x-msvideo",
   "video/x-ms-wmv", "video/webm", "video/ogg"}

\* limits.fileSize: parseInt(process.env.MAX_FILE_SIZE || 100000000, 10)
fileSizeLimit == IF env.MAX_FILE_SIZE = None THEN DefaultMaxFileSize ELSE env.MAX_FILE_SIZE[1]

MegaByte == 1000000

\* `${process.env.MAX_FILE_SIZE / 1000000}`: NaN when the variable is unset
maxSizeText ==
  IF env.MAX_FILE_SIZE = None THEN "NaN" ELSE ToString(env.MAX_FILE_SIZE[1] \div MegaByte)

\* ------------------------------------------------------------------- state
IdleRequest ==
  [pc |-> "idle", field |-> "none", upload |-> None, staged |-> None,
   file |-> None, videoId |-> None, output |-> None, launches |-> 0,
   wrote |-> FALSE, diag |-> None]

\* the node process once index.js has run
Running == [alive |-> TRUE, exitCode |-> None, cause |-> None]

InitHost(e, b) ==
  /\ proc = Running
  /\ boot = b
  /\ disconnected = {}
  /\ env = e
  /\ dirs = setupDirectories
  /\ files = {}
  /\ req = [r \in Reqs |-> IdleRequest]
  /\ resp = [r \in Reqs |-> None]
  /\ usedIds = {}
  /\ getResp = None
  /\ hits = [c \in Clients |-> 0]
  /\ slot = 0
  /\ gate = None
  /\ admitted = [c \in Clients |-> [prev |-> 0, cur |-> 0]]

\* the service with its FFmpeg check left aside
InitWith(e) == InitHost(e, None)

\* the errors the handlers raise
unexpectedFieldError == createError(400, <<"Unexpected field">>)
fileFilterError == createError(400, <<"Only video files are allowed">>)
fileTooLargeError == createError(400, <<"File too large. Maximum size is ", maxSizeText, "MB">>)
\* variant: the missing file reported as a server error
noFileError_asServerError == createError(500, <<"No video file uploaded">>)
noFileError == createError(400, <<"No video file uploaded">>)
inputNotFoundError == createError(400, <<"Input video file not found">>)
\* variant: the diagnostic text of the transcoder is dropped
transcodeError_noDiagnostic(diag) == createError(500, <<"Error processing video">>)
transcodeError(diag) == createError(500, <<"Error processing video: ", diag>>)
directoryNotFoundError == createError(500, <<"Processed directory not found">>)
videoNotFoundError == createError(404, <<"Video not found">>)

\* variant: no size limit is enforced
exceedsLimit_never(size) == FALSE

\* multer's file size limit: the bytes of the file exceed limits.fileSize
exceedsLimit(size) == size > fileSizeLimit

\* multer removes the file it stored when the upload is aborted
removeUploadedFile(fs, name) == unlinkSync(fs, UploadDir, name)

\* variant: the existence check is skipped
inputExists_unchecked(fs, videoFile) == TRUE

\* processVideo: fs.existsSync(inputPath)
inputExists(fs, videoFile) == existsSync(fs, videoFile.dir, videoFile.name)

\* variant: the cleanup empties the whole artifact directory
deletePartialOutput_wholeDirectory(fs, name) == {f \in fs : f.dir # ProcessDir}

\* variant: the partial output is left behind
deletePartialOutput_keep(fs, name) == fs

\* processVideo, on('error'): the partially written output is deleted
deletePartialOutput(fs, name) ==
  IF existsSync(fs, ProcessDir, name) THEN unlinkSync(fs, ProcessDir, name) ELSE fs

\* variant: the staged input is left behind after a successful transcode
deleteUploadedFile_keep(fs, videoFile) == fs

\* processVideoController after the await: fs.unlinkSync(videoFile.path),
\* whose failure is caught
deleteUploadedFile(fs, videoFile) ==
  IF existsSync(fs, videoFile.dir, videoFile.name)
  THEN unlinkSync(fs, videoFile.dir, videoFile.name)
  ELSE fs

\* variant: the controller waits for the transcoder synchronously, so that
\* no handler of another request runs while a transcode is pending
eventLoopHeld_sync(r) == \E q \in Reqs \ {r} : req[q].pc = "transcoding"

\* await processVideo(...): the controller is suspended on a promise that
\* the events of the transcoder settle, and the event loop is never held
\* against the handlers of a request r (r = 0: a GET request)
eventLoopHeld(r) == FALSE

\* uuidv4(): a value that no earlier call returned
uuidv4(used) == Tokens \ used

\* variant: the artifact id is taken from the staged file name
generateVideoId_fromStaged(videoFile, used) ==
  {SubSeq(videoFile.name, 1, Len(videoFile.name) - Len(extname(videoFile.name)))}

\* const videoId = uuidv4()
generateVideoId(videoFile, used) == uuidv4(used)

\* variant: the artifact name carries a fixed prefix "p"
sanitizedFilenameOf_prefixed(videoId, fileExtension) == <<112>> \o videoId \o fileExtension

\* `${videoId}${fileExtension}`
sanitizedFilenameOf(videoId, fileExtension) == videoId \o fileExtension

\* variant: the staged name keeps the client's file name after the id
storageFilename_original(id, originalname) == id \o originalname

\* storage.filename: `${uuidv4()}${path.extname(file.originalname)}`
storageFilename(id, originalname) == id \o extname(originalname)

\* ------------------------------------------------- POST /api/process, upload
\* uploadMiddleware: multer's field check, fileFilter, disk storage and size
\* limit, then the callback of uploadSingle
uploadMiddleware(r, field, up) ==
  /\ req[r].pc = "idle"
  /\ ~eventLoopHeld(r)
  /\ \A q \in Reqs : q < r => req[q].pc # "idle"
  /\ \/ \* no file part: the callback runs without error and without req.file
        /\ field = "none" /\ up = None
        /\ req' = [req EXCEPT ![r].pc = "uploaded"]
        /\ UNCHANGED <<files, resp, usedIds>>
     \/ \* a file in a field other than video: MulterError LIMIT_UNEXPECTED_FILE
        /\ field = "other" /\ up # None
        /\ req' = [req EXCEPT ![r].pc = "done", ![r].field = field, ![r].upload = up]
        /\ NextError(r, unexpectedFieldError, files)
        /\ UNCHANGED usedIds
     \/ \* fileFilter rejects the declared media type: nothing is stored
        /\ field = "video" /\ up # None
        /\ up[1].mimetype \notin allowedMimeTypes
        /\ req' = [req EXCEPT ![r].pc = "done", ![r].field = field, ![r].upload = up]
        /\ NextError(r, fileFilterError, files)
        /\ UNCHANGED usedIds
     \/ \* accepted: storage.filename names the file in the staging directory
        /\ field = "video" /\ up # None
        /\ up[1].mimetype \in allowedMimeTypes
        /\ \E t \in uuidv4(usedIds) :
             LET uniqueFilename == storageFilename(t, up[1].originalname)
                 stored == writeFile(files, UploadDir, uniqueFilename, r, "upload")
             IN
             /\ usedIds' = usedIds \cup {t}
             /\ IF exceedsLimit(up[1].size)
                THEN \* LIMIT_FILE_SIZE: multer removes what it stored and
                     \* does not set req.file
                     /\ req' = [req EXCEPT ![r].pc = "done", ![r].field = field,
                                           ![r].upload = up, ![r].staged = Some(uniqueFilename)]
                     /\ NextError(r, fileTooLargeError, removeUploadedFile(stored, uniqueFilename))
                ELSE /\ req' = [req EXCEPT ![r].pc = "uploaded", ![r].field = field,
                                           ![r].upload = up, ![r].staged = Some(uniqueFilename),
                                           ![r].file = Some([dir |-> UploadDir, name |-> uniqueFilename])]
                     /\ files' = stored
                     /\ UNCHANGED resp
  /\ UNCHANGED <<env, dirs, getResp>>

\* ------------------------------------------- POST /api/process, controller
\* processVideoController up to the await, with the synchronous part of
\* processVideo (the executor of its promise)
processVideoController(r) ==
  /\ req[r].pc = "uploaded"
  /\ ~eventLoopHeld(r)
  /\ IF req[r].file = None
     THEN /\ req' = [req EXCEPT ![r].pc = "done"]
          /\ NextError(r, noFileError, files)
          /\ UNCHANGED <<dirs, usedIds>>
     ELSE \E videoId \in generateVideoId(req[r].file[1], usedIds) :
          LET videoFile == req[r].file[1]
              fileExtension == extname(req[r].upload[1].originalname)
              sanitizedFilename == sanitizedFilenameOf(videoId, fileExtension)
              outputDir == ProcessDir
          IN
          /\ usedIds' = usedIds \cup {videoId}
          /\ dirs' = mkdirRecursive(dirs, outputDir)
          /\ IF ~inputExists(files, videoFile)
             THEN /\ req' = [req EXCEPT ![r].pc = "done", ![r].videoId = Some(videoId),
                                        ![r].output = Some(sanitizedFilename)]
                  /\ NextError(r, inputNotFoundError, files)
             ELSE /\ req' = [req EXCEPT ![r].pc = "transcoding", ![r].videoId = Some(videoId),
                                        ![r].output = Some(sanitizedFilename),
                                        ![r].launches = @ + 1]
                  /\ UNCHANGED <<files, resp>>
  /\ UNCHANGED <<env, getResp>>

\* the transcoder creates its output file and writes to it
ffmpegWrite(r) ==
  /\ req[r].pc = "transcoding"
  /\ ~existsSync(files, ProcessDir, req[r].output[1])
  /\ files' = writeFile(files, ProcessDir, req[r].output[1], r, "partial")
  /\ req' = [req EXCEPT ![r].wrote = TRUE]
  /\ UNCHANGED <<env, dirs, resp, usedIds, getResp>>

\* on('end'), and processVideoController after the await
ffmpegEnd(r) ==
  /\ req[r].pc = "transcoding"
  /\ existsSync(files, ProcessDir, req[r].output[1])
  /\ LET videoFile == req[r].file[1]
         written == writeFile(files, ProcessDir, req[r].output[1], r, "complete")
     IN files' = deleteUploadedFile(written, videoFile)
  /\ req' = [req EXCEPT ![r].pc = "done"]
  /\ resp' = [resp EXCEPT ![r] =
        Some([code |-> 200,
              body |-> [success |-> TRUE,
                        videoId |-> req[r].videoId[1],
                        downloadUrl |-> downloadUrlOf(req[r].output[1]),
                        message |-> <<"Video processed successfully">>]])]
  /\ UNCHANGED <<env, dirs, usedIds, getResp>>

\* on('error'), and the catch of processVideoController
ffmpegError(r, diag) ==
  /\ req[r].pc = "transcoding"
  /\ req' = [req EXCEPT ![r].pc = "done", ![r].diag = Some(diag)]
  /\ NextError(r, transcodeError(diag), deletePartialOutput(files, req[r].output[1]))
  /\ UNCHANGED <<env, dirs, usedIds, getResp>>

\* a staged upload vanishes before the transcode: it is removed from outside
\* the service
externalRemoveStaged(r) ==
  /\ req[r].pc = "uploaded"
  /\ req[r].staged # None
  /\ existsSync(files, UploadDir, req[r].staged[1])
  /\ files' = unlinkSync(files, UploadDir, req[r].staged[1])
  /\ UNCHANGED <<env, dirs, req, resp, usedIds, getResp>>

\* variant: the close of the connection kills the transcoder, and nothing
\* that follows its events runs
clientDisconnect_aborts(r) ==
  /\ r \notin disconnected
  /\ req[r].pc \in {"uploaded", "transcoding"}
  /\ disconnected' = disconnected \cup {r}
  /\ req' = [req EXCEPT ![r].pc = "done"]
  /\ UNCHANGED <<env, dirs, files, resp, usedIds, getResp>>

\* the client of a process call closes its connection while the call is in
\* flight: neither the controller nor processVideo listens for the close of
\* the request, so the call goes on as it was
clientDisconnect(r) ==
  /\ r \notin disconnected
  /\ req[r].pc \in {"uploaded", "transcoding"}
  /\ disconnected' = disconnected \cup {r}
  /\ UNCHANGED <<env, dirs, files, req, resp, usedIds, getResp>>

\* ------------------------------------------------------ GET /api/video/:id
\* the ids clients look up: a one-character prefix and two whole ids
LookupIds == {<<49>>, <<49, 49>>, <<50, 49>>}

getVideoResponse(id) ==
  IF LookupDir \notin dirs
  THEN errorHandlerResponse(directoryNotFoundError)
  ELSE LET videoFile == findStartsWith(readdirSync(files, LookupDir), id) IN
       IF videoFile = None
       THEN errorHandlerResponse(videoNotFoundError)
       ELSE [code |-> 200,
             body |-> [success |-> TRUE,
                       videoId |-> id,
                       downloadUrl |-> downloadUrlOf(videoFile[1]),
                       filename |-> videoFile[1]]]

\* variant: the lookup creates the artifact directory when it is missing
getVideoController_mkdir(id) ==
  /\ ~eventLoopHeld(0)
  /\ getResp' = Some([route |-> "video", param |-> id,
                       listing |-> IF LookupDir \in dirs THEN Some(readdirSync(files, LookupDir)) ELSE None,
                       response |-> getVideoResponse(id)])
  /\ dirs' = mkdirRecursive(dirs, LookupDir)
  /\ UNCHANGED <<env, files, req, resp, usedIds>>

getVideoController(id) ==
  /\ ~eventLoopHeld(0)
  /\ getResp' = Some([route |-> "video", param |-> id,
                       listing |-> IF LookupDir \in dirs THEN Some(readdirSync(files, LookupDir)) ELSE None,
                       response |-> getVideoResponse(id)])
  /\ UNCHANGED <<env, dirs, files, req, resp, usedIds>>

\* -------------------------------------------------- GET /downloads/:filename
\* express.static on the downloads directory, with setHeaders
downloadResponse(filename) ==
  IF existsSync(files, DownloadsDir, filename)
  THEN [code |-> 200,
        file |-> Some(CHOOSE f \in files : f.dir = DownloadsDir /\ f.name = filename),
        disposition |-> <<"attachment; filename=", basename(filename)>>]
  ELSE [code |-> 404, file |-> None, disposition |-> <<>>]

download(filename) ==
  /\ ~eventLoopHeld(0)
  /\ getResp' = Some([route |-> "downloads", param |-> filename, listing |-> None,
                       response |-> downloadResponse(filename)])
  /\ UNCHANGED <<env, dirs, files, req, resp, usedIds>>

\* the file names clients ask /downloads for: those of the process calls
DownloadNames == {req[r].output[1] : r \in {q \in Reqs : req[q].output # None}}

\* ------------------------------------- the middleware in front of the routes
\* process.env.NODE_ENV === 'production'
isProduction == env.NODE_ENV = Some("production")

\* ALLOWED_ORIGINS.split(','), or the default list
allowedOrigins ==
  IF env.ALLOWED_ORIGINS = None THEN <<"http://localhost:3000">> ELSE env.ALLOWED_ORIGINS[1]

\* Array.prototype.includes
includes(list, x) == \E i \in 1..Len(list) : list[i] = x

\* variant: every origin is let through
corsAllows_any(origin) == TRUE

\* the origin callback of cors: !origin || allowedOrigins.includes(origin)
corsAllows(origin) == origin = None \/ includes(allowedOrigins, origin[1])

\* new Error('Not allowed by CORS'): an error without statusCode and status
corsError == [statusCode |-> 0, message |-> <<"Not allowed by CORS">>, status |-> ""]

\* the rate limiter: windowMs, max, message
limiterWindowMs == 15 * 60 * 1000
limiterMax == IF isProduction THEN 60 ELSE 100
limiterMessage == "Too many requests from this IP, please try again later"

\* variant: the request that reaches the maximum is refused as well
limiterRejects_atMax(totalHits) == totalHits >= limiterMax

\* express-rate-limit: the request is refused when its client's hits in the
\* current window, this request included, exceed max
limiterRejects(totalHits) == totalHits > limiterMax

\* the 429 response of the limiter: res.status(429).send(message)
tooManyRequestsResponse == [code |-> 429, body |-> [text |-> limiterMessage]]

\* the store of the limiter is reset for every client each windowMs
limiterResetAll == [c \in Clients |-> 0]

\* if (isProduction && process.env.API_KEY): the key middleware is installed
apiKeyEnabled == isProduction /\ env.API_KEY # None

\* variant: only an absent header is refused
apiKeyRejects_absentOnly(apiKey) == apiKey = None

\* !apiKey || apiKey !== process.env.API_KEY
apiKeyRejects(apiKey) == apiKey = None \/ apiKey[1] = "" \/ apiKey # env.API_KEY

\* variant: a refused key is reported as a client failure
unauthorizedResponse_fail ==
  [code |-> 401, body |-> [status |-> "fail", message |-> <<"Unauthorized: Invalid API key">>]]

\* res.status(401).json({status: 'error', message: ...})
unauthorizedResponse ==
  [code |-> 401, body |-> [status |-> "error", message |-> <<"Unauthorized: Invalid API key">>]]

\* the route a request under /api is dispatched to
apiRoute(route) ==
  IF route.method = "POST"
  THEN uploadMiddleware(route.r, route.body.field, route.body.upload)
  ELSE getVideoController(route.id)

\* a request under /api from client c: cors, the limiter, the key
\* middleware, then the route
apiRequest(c, origin, apiKey, route) ==
  LET seen(response) == Some([client |-> c, origin |-> origin, apiKey |-> apiKey,
                              response |-> response])
  IN
  IF ~corsAllows(origin)
  THEN \* next(err): errorHandler answers, no later middleware runs
       /\ hits' = hits
       /\ gate' = seen(Some(errorHandlerResponse(corsError)))
       /\ UNCHANGED <<routeVars, slot, admitted>>
  ELSE /\ hits' = [hits EXCEPT ![c] = @ + 1]
       /\ IF limiterRejects(hits[c] + 1)
          THEN /\ gate' = seen(Some(tooManyRequestsResponse))
               /\ UNCHANGED <<routeVars, slot, admitted>>
          ELSE /\ admitted' = [admitted EXCEPT ![c].cur = @ + 1]
               /\ IF apiKeyEnabled /\ apiKeyRejects(apiKey)
                  THEN /\ gate' = seen(Some(unauthorizedResponse))
                       /\ UNCHANGED <<routeVars, slot>>
                  ELSE /\ gate' = seen(None)
                       /\ apiRoute(route)
                       /\ UNCHANGED slot

\* half a window of the limiter
SlotMs == limiterWindowMs \div 2
now == slot * SlotMs

\* half a window of the limiter passes; the interval timer of the store
\* fires at every multiple of windowMs
limiterTick ==
  /\ slot' = slot + 1
  /\ hits' = IF ((slot + 1) * SlotMs) % limiterWindowMs = 0 THEN limiterResetAll ELSE hits
  /\ admitted' = [c \in Clients |-> [prev |-> admitted[c].cur, cur |-> 0]]
  /\ UNCHANGED <<routeVars, gate>>

\* variant: the downloads are mounted under /api
downloadsMount_underApi == <<"api", "downloads">>

\* app.use('/downloads', express.static(...))
downloadsMount == <<"downloads">>

\* app.use('/api', ...): the middleware runs for the paths under /api
underApi(mount) == mount[1] = "api"

\* GET {downloadsMount}/:filename from client c: cors, the middleware
\* mounted on /api if the path lies under it, then express.static
downloadRequest(c, origin, apiKey, filename) ==
  LET seen(response) == Some([client |-> c, origin |-> origin, apiKey |-> apiKey,
                              response |-> response])
      guarded == underApi(downloadsMount)
  IN
  IF ~corsAllows(origin)
  THEN /\ gate' = seen(Some(errorHandlerResponse(corsError)))
       /\ UNCHANGED <<routeVars, hits, slot, admitted>>
  ELSE IF guarded /\ limiterRejects(hits[c] + 1)
  THEN /\ hits' = [hits EXCEPT ![c] = @ + 1]
       /\ gate' = seen(Some(tooManyRequestsResponse))
       /\ UNCHANGED <<routeVars, slot, admitted>>
  ELSE IF guarded /\ apiKeyEnabled /\ apiKeyRejects(apiKey)
  THEN /\ hits' = [hits EXCEPT ![c] = @ + 1]
       /\ admitted' = [admitted EXCEPT ![c].cur = @ + 1]
       /\ gate' = seen(Some(unauthorizedResponse))
       /\ UNCHANGED <<routeVars, slot>>
  ELSE /\ hits' = IF guarded THEN [hits EXCEPT ![c] = @ + 1] ELSE hits
       /\ admitted' = IF guarded THEN [admitted EXCEPT ![c].cur = @ + 1] ELSE admitted
       /\ gate' = seen(None)
       /\ download(filename)
       /\ UNCHANGED slot

\* the routes, for requests that the middleware in front of them lets
\* through
Next ==
  /\ \/ \E r \in Reqs, b \in Bodies : uploadMiddleware(r, b.field, b.upload)
     \/ \E r \in Reqs : processVideoController(r)
     \/ \E r \in Reqs : ffmpegWrite(r)
     \/ \E r \in Reqs : ffmpegEnd(r)
     \/ \E r \in Reqs, d \in Diagnostics : ffmpegError(r, d)
     \/ \E r \in Reqs : externalRemoveStaged(r)
     \/ \E id \in LookupIds : getVideoController(id)
     \/ \E n \in DownloadNames : download(n)
  /\ UNCHANGED gateVars
  /\ UNCHANGED hostVars

\* the service started without configuration
Init == InitWith(DefaultEnv)
Spec == Init /\ [][Next]_vars

\* the service started with the configuration ConfiguredEnv
InitConfigured == InitWith(ConfiguredEnv)
SpecConfigured == InitConfigured /\ [][Next]_vars

\* ------------------------------------------- the service behind its gate
MaxApiRequests == 3    \* requests under /api that reach the limiter

\* the Origin and x-api-key headers clients send
Origins ==
  {None, Some("http://localhost:3000"), Some("https://app.example.com"),
   Some("https://evil.example.net")}
ApiKeys == {None, Some("k1"), Some("k2")}

GateClient == "10.0.0.1"
GateLookupIds == {<<49>>}
\* the process call that is sent through the middleware
GateReqs == {1}
GateRoutes ==
  {[method |-> "POST", r |-> r, body |-> b] : r \in GateReqs, b \in Bodies}
  \cup {[method |-> "GET", id |-> id] : id \in GateLookupIds}

\* every request under /api goes through the middleware; what the routes
\* left pending goes on behind it
NextGate ==
  /\ \/ \E origin \in Origins, apiKey \in ApiKeys, route \in GateRoutes :
          /\ hits[GateClient] < MaxApiRequests
          /\ apiRequest(GateClient, origin, apiKey, route)
     \/ /\ \/ \E r \in Reqs : processVideoController(r)
           \/ \E r \in Reqs : ffmpegWrite(r)
           \/ \E r \in Reqs : ffmpegEnd(r)
           \/ \E r \in Reqs, d \in Diagnostics : ffmpegError(r, d)
           \/ \E r \in Reqs : externalRemoveStaged(r)
        /\ UNCHANGED gateVars
  /\ UNCHANGED hostVars

\* the service started in production mode, in development mode or without
\* NODE_ENV
InitGate == \E e \in {ProductionEnv, DevelopmentEnv, DefaultEnv} : InitWith(e)
SpecGate == InitGate /\ [][NextGate]_vars

\* --------------------------------------------- the limiter across windows
MaxSlot == 2           \* half windows that pass in one behaviour
MaxOtherHits == 1      \* requests of the second client in one window

OtherClient == "10.0.0.2"

\* one client sends lookups until the limiter refuses one, another client
\* sends a few, and time passes
NextLimiter ==
  /\ \/ \E c \in Clients :
          /\ hits[c] < (IF c = OtherClient THEN MaxOtherHits ELSE limiterMax + 1)
          /\ apiRequest(c, None, env.API_KEY, [method |-> "GET", id |-> <<49>>])
     \/ slot < MaxSlot /\ limiterTick
  /\ UNCHANGED hostVars

InitLimiter == InitWith(ProductionEnv)
SpecLimiter == InitLimiter /\ [][NextLimiter]_vars

\* ------------------------------------------- process calls that overlap
\* the bodies of the process calls that overlap; their transcodes succeed
WaitBodies == {b \in Bodies : b.field = "none" \/ (b.field = "video" /\ b.upload[1].mimetype = "video/mp4")}

\* process calls and lookups, interleaved
NextWait ==
  /\ \/ \E r \in Reqs, b \in WaitBodies : uploadMiddleware(r, b.field, b.upload)
     \/ \E r \in Reqs : processVideoController(r)
     \/ \E r \in Reqs : ffmpegWrite(r)
     \/ \E r \in Reqs : ffmpegEnd(r)
     \/ \E id \in GateLookupIds : getVideoController(id)
  /\ UNCHANGED gateVars
  /\ UNCHANGED hostVars

SpecWait == Init /\ [][NextWait]_vars

\* ------------------------------------- file names chosen by the client
\* "../v.m", "a.b/c", "v.m/..", "/v.m.m" and "v.m"
ClientNames ==
  {<<DOT, DOT, SLASH, 118, DOT, 109>>, <<97, DOT, 98, SLASH, 99>>,
   <<118, DOT, 109, SLASH, DOT, DOT>>, <<SLASH, 118, DOT, 109, DOT, 109>>,
   NameWithExt}
NamedBodies ==
  {[field |-> "video",
    upload |-> Some([originalname |-> n, mimetype |-> "video/mp4", size |-> 2000000])] :
     n \in ClientNames}

\* process calls whose file part carries any of these names
NextNames ==
  /\ \/ \E r \in Reqs, b \in NamedBodies : uploadMiddleware(r, b.field, b.upload)
     \/ \E r \in Reqs : processVideoController(r)
     \/ \E r \in Reqs : ffmpegWrite(r)
     \/ \E r \in Reqs : ffmpegEnd(r)
     \/ \E r \in Reqs, d \in Diagnostics : ffmpegError(r, d)
  /\ UNCHANGED gateVars
  /\ UNCHANGED hostVars

SpecNames == Init /\ [][NextNames]_vars

\* ----------------------------------------- process calls run to their end
\* the process calls that wait for an artifact id
pendingIds == Cardinality({r \in Reqs : req[r].pc = "uploaded" /\ req[r].file # None})

\* a file part is taken in only while ids are left for it and for the
\* calls that wait
idsLeftFor(b) == b.field = "video" => Cardinality(uuidv4(usedIds)) >= pendingIds + 2

\* process calls, each followed to its answer
NextLive ==
  /\ \/ \E r \in Reqs, b \in WaitBodies :
          idsLeftFor(b) /\ uploadMiddleware(r, b.field, b.upload)
     \/ \E r \in Reqs : processVideoController(r)
     \/ \E r \in Reqs : ffmpegWrite(r)
     \/ \E r \in Reqs : ffmpegEnd(r)
     \/ \E r \in Reqs, d \in Diagnostics : ffmpegError(r, d)
  /\ UNCHANGED gateVars
  /\ UNCHANGED hostVars

\* express calls the controller once the upload middleware has called
\* next(), and the transcoder emits end or error
controllerStep(r) == processVideoController(r) /\ UNCHANGED <<gateVars, hostVars>>
transcoderEvent(r) ==
  /\ ffmpegEnd(r) \/ \E d \in Diagnostics : ffmpegError(r, d)
  /\ UNCHANGED <<gateVars, hostVars>>

FairLive == \A r \in Reqs : WF_vars(controllerStep(r)) /\ WF_vars(transcoderEvent(r))

SpecLive == Init /\ [][NextLive]_vars /\ FairLive

\* the bodies of the process calls whose clients close the connection
DisconnectBodies == {b \in WaitBodies : b.field = "video"}
DisconnectDiagnostics == {"ffmpeg exited with code 1"}

\* process calls whose clients may close the connection once the
\* transcoder is launched
NextDisconnect ==
  /\ \/ \E r \in Reqs, b \in DisconnectBodies :
          /\ idsLeftFor(b) /\ uploadMiddleware(r, b.field, b.upload)
          /\ UNCHANGED disconnected
     \/ \E r \in Reqs : processVideoController(r) /\ UNCHANGED disconnected
     \/ \E r \in Reqs : ffmpegWrite(r) /\ UNCHANGED disconnected
     \/ \E r \in Reqs : ffmpegEnd(r) /\ UNCHANGED disconnected
     \/ \E r \in Reqs, d \in DisconnectDiagnostics : ffmpegError(r, d) /\ UNCHANGED disconnected
     \/ \E r \in Reqs : req[r].pc = "transcoding" /\ clientDisconnect(r)
  /\ UNCHANGED gateVars
  /\ UNCHANGED <<proc, boot>>

SpecDisconnect == Init /\ [][NextDisconnect]_vars /\ FairLive

\* ------------------------------------------------- errors nobody catches
\* process.exit(code)
processExit(code, cause) ==
  proc' = [alive |-> FALSE, exitCode |-> Some(code), cause |-> Some(cause)]

\* variant: in production the exception is logged and the process goes on
uncaughtException_loggedInProduction ==
  /\ proc.alive
  /\ IF isProduction
     THEN proc' = [proc EXCEPT !.cause = Some("uncaughtException")]
     ELSE processExit(1, "uncaughtException")
  /\ UNCHANGED <<routeVars, gateVars, boot, disconnected>>

\* process.on('uncaughtException'): logs and exits, in every mode
uncaughtException ==
  /\ proc.alive
  /\ processExit(1, "uncaughtException")
  /\ UNCHANGED <<routeVars, gateVars, boot, disconnected>>

\* process.on('unhandledRejection'): logs and exits, in every mode
unhandledRejection ==
  /\ proc.alive
  /\ processExit(1, "unhandledRejection")
  /\ UNCHANGED <<routeVars, gateVars, boot, disconnected>>

\* process calls, and an exception or a rejection that reaches the process
\* at any moment; nothing runs once the process has exited
NextCrash ==
  \/ /\ proc.alive
     /\ \/ \E r \in Reqs, b \in WaitBodies : uploadMiddleware(r, b.field, b.upload)
        \/ \E r \in Reqs : processVideoController(r)
        \/ \E r \in Reqs : ffmpegWrite(r)
        \/ \E r \in Reqs : ffmpegEnd(r)
        \/ \E r \in Reqs, d \in Diagnostics : ffmpegError(r, d)
     /\ UNCHANGED gateVars
     /\ UNCHANGED hostVars
  \/ uncaughtException
  \/ unhandledRejection

InitCrash == \E e \in {ProductionEnv, DefaultEnv} : InitWith(e)
SpecCrash == InitCrash /\ [][NextCrash]_vars

\* ------------------------------------------------------ ffmpegInstaller
\* the commands of the system package managers, in the order of the loop
\* variant: apt is tried before apt-get
packageManagers_aptFirst == <<"apt", "apt-get", "yum", "dnf", "zypper">>
packageManagers == <<"apt-get", "apt", "yum", "dnf", "zypper">>

\* a promise of the installer that resolved with a value or rejected, and
\* the installation commands that were run for it, in order
Resolved(v, tried) == [settled |-> "resolved", value |-> v, tried |-> tried]
Rejected(tried) == [settled |-> "rejected", value |-> FALSE, tried |-> tried]

\* installFfmpegWithNpm: npm install, then require of the installed package
installFfmpegWithNpm(host, tried) ==
  IF host.npm = "ok" THEN Resolved(TRUE, Append(tried, "npm")) ELSE Rejected(Append(tried, "npm"))

\* installFfmpegWindows: the same npm install
installFfmpegWindows(host) == installFfmpegWithNpm(host, <<>>)

\* installFfmpegMac: brew when `which brew` finds it, npm when brew is
\* missing or fails
installFfmpegMac(host) ==
  IF host.brew = "absent" THEN installFfmpegWithNpm(host, <<>>)
  ELSE IF host.brew = "fails" THEN installFfmpegWithNpm(host, <<"brew">>)
  ELSE Resolved(TRUE, <<"brew">>)

\* the loop of installFfmpegLinux from the i-th package manager on
RECURSIVE installFfmpegLinuxFrom(_, _, _, _)
installFfmpegLinuxFrom(host, i, packageManagerFound, tried) ==
  IF i > Len(packageManagers)
  THEN IF ~packageManagerFound
       THEN installFfmpegWithNpm(host, tried)
       ELSE Rejected(tried)
  ELSE LET pm == packageManagers[i] IN
       IF pm \notin host.which
       THEN installFfmpegLinuxFrom(host, i + 1, packageManagerFound, tried)
       ELSE IF pm \in host.installOk
            THEN Resolved(TRUE, Append(tried, pm))
            ELSE installFfmpegLinuxFrom(host, i + 1, TRUE, Append(tried, pm))

installFfmpegLinux(host) == installFfmpegLinuxFrom(host, 1, FALSE, <<>>)

\* .then(success => resolve(success)).catch(() => resolve(false))
settleInstall(p) == IF p.settled = "resolved" THEN p ELSE Resolved(FALSE, p.tried)

\* installFfmpeg: the installer of the platform, false on any other one
installFfmpeg(host) ==
  IF host.platform = "win32" THEN settleInstall(installFfmpegWindows(host))
  ELSE IF host.platform = "darwin" THEN settleInstall(installFfmpegMac(host))
  ELSE IF host.platform = "linux" THEN settleInstall(installFfmpegLinux(host))
  ELSE Resolved(FALSE, <<>>)

\* the installers that settle before any callback of exec can run: they
\* use execSync only, or nothing at all
installIsSynchronous(host) ==
  \/ host.platform \notin {"win32", "darwin", "linux"}
  \/ host.platform = "linux" /\ host.which # {}

\* ------------------------------------------------------------ the hosts
\* platform: os.platform(); onPath: `ffmpeg -version` works at start;
\* bundled: node_modules/@ffmpeg-installer/ffmpeg is absent, cannot be
\* required, holds a binary that fails, or holds one that works;
\* which, installOk: the package managers found and those whose install
\* succeeds; brew, npm: what brew and npm do; installedWorks: whether
\* `ffmpeg -version` works after an installation that succeeded
PackageManagerNames == {"apt-get", "apt", "yum", "dnf", "zypper"}
Platforms == {"win32", "darwin", "linux", "freebsd"}
HostsOf(platform) ==
  [platform : {platform}, onPath : BOOLEAN,
   bundled : {"absent", "unloadable", "broken", "working"},
   which : IF platform = "linux" THEN SUBSET PackageManagerNames ELSE {{}},
   installOk : IF platform = "linux" THEN SUBSET PackageManagerNames ELSE {{}},
   brew : IF platform = "darwin" THEN {"absent", "fails", "ok"} ELSE {"absent"},
   npm : {"fails", "unloadable", "ok"},
   installedWorks : BOOLEAN]
Hosts ==
  {h \in UNION {HostsOf(p) : p \in Platforms} :
     /\ h.installOk \subseteq h.which
     /\ (h.which # {} \/ h.platform = "freebsd") => h.npm = "ok"
     /\ h.onPath => (h.bundled = "absent" /\ h.installedWorks)}

\* ----------------------------------------------------------- checkFfmpeg
\* checkFfmpeg() is called and runs exec('ffmpeg -version')
\* pc: where the callback of that exec stands; verify: the result that the
\* pending verification of the bundled binary will report; found: the
\* bundled binary was put on PATH; working: `ffmpeg -version` works now;
\* install: what installFfmpeg() settled with; result: the value the
\* promise resolved with, and whether FFmpeg worked at that moment
BootOn(host) ==
  [host |-> host, pc |-> "exec", verify |-> None, found |-> FALSE,
   working |-> host.onPath, install |-> None, result |-> None]

\* resolve(v): the first call settles the promise, later calls do nothing
resolveCheck(b, v) ==
  IF b.result = None
  THEN [b EXCEPT !.result = Some([value |-> v, working |-> b.working])]
  ELSE b

\* the lines after `await installFfmpeg()`: the verification is launched
\* when the installation succeeded, resolve(false) is called otherwise
afterInstall(b) ==
  LET installed == installFfmpeg(b.host) IN
  IF installed.settled = "resolved" /\ installed.value
  THEN [b EXCEPT !.install = Some(installed), !.pc = "verifying",
                 !.working = b.working \/ b.host.installedWorks]
  ELSE resolveCheck([b EXCEPT !.install = Some(installed), !.pc = "end"], FALSE)

\* the code that follows the look for the bundled binary: installFfmpeg()
\* is called whether or not the binary was found
afterBundled(b) ==
  IF installIsSynchronous(b.host) THEN afterInstall(b) ELSE [b EXCEPT !.pc = "installing"]

\* the callback of the first exec
execCallback ==
  /\ boot # None /\ boot[1].pc = "exec"
  /\ LET b == boot[1]
         found == b.host.bundled \in {"broken", "working"}
     IN boot' =
          IF b.host.onPath
          THEN Some(resolveCheck([b EXCEPT !.pc = "end"], TRUE))
          ELSE Some(afterBundled(
                 [b EXCEPT !.found = found,
                           !.working = (b.host.bundled = "working"),
                           !.verify = IF found THEN Some(b.host.bundled = "working") ELSE None]))
  /\ UNCHANGED <<routeVars, gateVars, proc, disconnected>>

\* the callback of the verification of the bundled binary
verifyCallback ==
  /\ boot # None /\ boot[1].verify # None
  /\ LET b == [boot[1] EXCEPT !.verify = None]
     IN boot' = Some(IF boot[1].verify[1] THEN resolveCheck(b, TRUE) ELSE b)
  /\ UNCHANGED <<routeVars, gateVars, proc, disconnected>>

\* installFfmpeg() settles after the callbacks of its own exec calls
installSettles ==
  /\ boot # None /\ boot[1].pc = "installing"
  /\ boot' = Some(afterInstall(boot[1]))
  /\ UNCHANGED <<routeVars, gateVars, proc, disconnected>>

\* the callback of the verification that follows a successful installation
verifyInstallCallback ==
  /\ boot # None /\ boot[1].pc = "verifying"
  /\ boot' = Some(resolveCheck([boot[1] EXCEPT !.pc = "end"], boot[1].working))
  /\ UNCHANGED <<routeVars, gateVars, proc, disconnected>>

NextBoot == execCallback \/ verifyCallback \/ installSettles \/ verifyInstallCallback

InitBoot == \E h \in Hosts : InitHost(DefaultEnv, Some(BootOn(h)))
SpecBoot == InitBoot /\ [][NextBoot]_vars

\* ----------------------------------------- downloads beside the /api gate
DownloadOrigins == {None, Some("https://evil.example.net")}
DownloadBody ==
  [field |-> "video",
   upload |-> Some([originalname |-> NameWithExt, mimetype |-> "video/mp4", size |-> 2000000])]

\* a client with the key sends one process call and lookups until the
\* limiter refuses one; downloads are asked for with and without the key
NextDownloads ==
  /\ \/ /\ hits[GateClient] < limiterMax + 1
        /\ \E r \in GateReqs :
             apiRequest(GateClient, None, env.API_KEY, [method |-> "POST", r |-> r, body |-> DownloadBody])
     \/ /\ hits[GateClient] < limiterMax + 1
        /\ apiRequest(GateClient, None, env.API_KEY, [method |-> "GET", id |-> <<49>>])
     \/ /\ \/ \E r \in GateReqs : processVideoController(r)
           \/ \E r \in GateReqs : ffmpegWrite(r)
           \/ \E r \in GateReqs : ffmpegEnd(r)
        /\ UNCHANGED gateVars
     \/ \E origin \in DownloadOrigins, apiKey \in {None, env.API_KEY}, n \in DownloadNames :
          downloadRequest(GateClient, origin, apiKey, n)
  /\ UNCHANGED hostVars

InitDownloads == InitWith(ProductionEnv)
SpecDownloads == InitDownloads /\ [][NextDownloads]_vars

\* ------------------------------------------- lookups of the ids returned
\* process calls, and lookups of the artifact ids they were given
NextRoundTrip ==
  /\ \/ \E r \in Reqs, b \in WaitBodies : uploadMiddleware(r, b.field, b.upload)
     \/ \E r \in Reqs : processVideoController(r)
     \/ \E r \in Reqs : ffmpegWrite(r)
     \/ \E r \in Reqs : ffmpegEnd(r)
     \/ \E r \in Reqs, d \in Diagnostics : ffmpegError(r, d)
     \/ \E r \in Reqs : req[r].videoId # None /\ getVideoController(req[r].videoId[1])
  /\ UNCHANGED gateVars
  /\ UNCHANGED hostVars

SpecRoundTrip == Init /\ [][NextRoundTrip]_vars

TypeOK == \A r \in Reqs : req[r].pc \in {"idle", "uploaded", "transcoding", "done"}


\* =================================================================== claims
Answered(r) == resp[r] # None
Code(r) == resp[r][1].code
StagedExists(r) == req[r].staged # None /\ existsSync(files, UploadDir, req[r].staged[1])
OutputExists(r) == req[r].output # None /\ existsSync(files, ProcessDir, req[r].output[1])

\* C1: every POST /api/process answered 200 returns downloadUrl =
\* {base_url}/downloads/{videoId}{original_extension}, and GET /downloads of
\* that file name serves the file its transcoder wrote: the directory that is
\* written, the one that is scanned and the one that is served are the same.
C1_DownloadServesWrittenFile ==
  \A r \in Reqs :
    (Answered(r) /\ Code(r) = 200) =>
      /\ resp[r][1].body.downloadUrl =
           [base |-> baseUrl,
            path |-> <<"downloads", req[r].videoId[1] \o extname(req[r].upload[1].originalname)>>]
      /\ ProcessDir = LookupDir
      /\ ProcessDir = DownloadsDir
      /\ downloadResponse(req[r].output[1]).code = 200
      /\ downloadResponse(req[r].output[1]).file = Some([dir |-> ProcessDir, name |-> req[r].output[1],
                                                         by |-> r, kind |-> "complete"])

C4_TooLargeRejected ==
  \A r \in Reqs :
    (req[r].upload # None /\ req[r].upload[1].size > fileSizeLimit) =>
      /\ req[r].pc = "done"
      /\ Answered(r) /\ Code(r) = 400
      /\ req[r].launches = 0 /\ req[r].videoId = None
      /\ ~StagedExists(r)
      /\ \A f \in files : f.by # r

\* an upload over the ceiling that passed the media type filter was answered
C4_Witness ==
  \E r \in Reqs :
    /\ req[r].upload # None /\ req[r].upload[1].size > fileSizeLimit
    /\ req[r].staged # None /\ Answered(r)

\* the allow-list of declared media types, as the interface states it
C5_VideoTypes ==
  {"video/mp4", "video/mpeg", "video/quicktime", "video/x-msvideo",
   "video/x-ms-wmv", "video/webm", "video/ogg"}

\* C5: an upload whose declared media type is not allow-listed is answered
\* 400 with body status "fail", nothing is written to the staging directory
\* and the transcoder is not invoked.
C5_UnsupportedTypeRejected ==
  \A r \in Reqs :
    (req[r].upload # None /\ req[r].upload[1].mimetype \notin C5_VideoTypes) =>
      /\ req[r].pc = "done"
      /\ Answered(r) /\ Code(r) = 400 /\ resp[r][1].body.status = "fail"
      /\ req[r].staged = None /\ req[r].file = None
      /\ \A f \in files : f.by # r
      /\ req[r].launches = 0

\* a file of a type outside the allow-list came in the field video
C5_Witness ==
  \E r \in Reqs :
    /\ req[r].field = "video" /\ req[r].upload # None
    /\ req[r].upload[1].mimetype = "image/png" /\ Answered(r)

\* C6: a POST /api/process without a file in the field video is answered
\* 400 with body status "fail"; no video id is generated, the transcoder is
\* not invoked and no file is written.
C6_MissingFileRejected ==
  \A r \in Reqs :
    (req[r].pc # "idle" /\ req[r].field # "video") =>
      /\ req[r].pc = "done" => (Answered(r) /\ Code(r) = 400 /\ resp[r][1].body.status = "fail")
      /\ Answered(r) => req[r].pc = "done"
      /\ req[r].videoId = None /\ req[r].output = None
      /\ req[r].launches = 0
      /\ req[r].staged = None
      /\ \A f \in files : f.by # r

\* a request without any file part was answered by the controller
C6_Witness ==
  \E r \in Reqs :
    /\ req[r].pc = "done" /\ req[r].field = "none"
    /\ Answered(r) /\ resp[r][1].body.message = <<"No video file uploaded">>

\* C7: when the staged input does not exist as processVideo is called, the
\* call fails with the 400 error "Input video file not found" and the
\* transcoder is not launched.
C7_MissingInputIsInvalidInput ==
  [][\A r \in Reqs :
       ( /\ req[r].pc = "uploaded" /\ req[r].file # None
         /\ ~existsSync(files, req[r].file[1].dir, req[r].file[1].name)
         /\ req'[r].pc # "uploaded" ) =>
       ( /\ req'[r].pc = "done" /\ req'[r].launches = 0
         /\ resp'[r] = Some([code |-> 400,
                             body |-> [status |-> "fail",
                                       message |-> <<"Input video file not found">>]]) )]_vars

\* a request whose staged file had vanished was answered
C7_Witness ==
  \E r \in Reqs :
    /\ Answered(r) /\ req[r].file # None /\ req[r].launches = 0
    /\ Code(r) = 400 /\ resp[r][1].body.message = <<"Input video file not found">>

\* C8: the transcoder is launched at most once per request, and once it
\* has reported an error the request is answered 500 with body status
\* "error" and a message that carries the diagnostic; it is never answered 200.
C8_TranscodeFailureTerminal ==
  \A r \in Reqs :
    /\ req[r].launches <= 1
    /\ req[r].diag # None =>
         /\ req[r].pc = "done"
         /\ resp[r] = Some([code |-> 500,
                            body |-> [status |-> "error",
                                      message |-> <<"Error processing video: ", req[r].diag[1]>>]])

\* a transcoder reported an error
C8_Witness == \E r \in Reqs : req[r].diag # None /\ req[r].launches = 1 /\ Answered(r)

\* id is a prefix of name
IsPrefixOf(id, name) == \E k \in 0..Len(name) : SubSeq(name, 1, k) = id

\* the three outcomes of a lookup, read off the artifact directory
C9_Outcome(id, response) ==
  LET matches == {n \in NamesIn(files, ProcessDir) : IsPrefixOf(id, n)} IN
  IF ProcessDir \notin dirs
  THEN response.code = 500 /\ response.body.status = "error"
  ELSE IF matches = {}
  THEN response.code = 404 /\ response.body.message = <<"Video not found">>
  ELSE /\ response.code = 200
       /\ response.body.videoId = id
       /\ response.body.filename \in matches
       /\ \A m \in matches \ {response.body.filename} : StrLess(response.body.filename, m)
       /\ response.body.downloadUrl = [base |-> baseUrl, path |-> <<"downloads", response.body.filename>>]

\* C9: GET /api/video/:id answers 500 when the artifact directory is absent,
\* 404 "Video not found" when no entry starts with id, and otherwise 200 with
\* the first entry that starts with id and downloadUrl
\* {base_url}/downloads/{filename}.  The steps examined are those of
\* getVideoController(id) that record a new answer.
C9_LookupOutcomes ==
  [][\A id \in LookupIds :
       ( /\ getResp' # getResp /\ getResp' # None
         /\ getResp'[1].route = "video" /\ getResp'[1].param = id
         /\ getVideoController(id) ) =>
         C9_Outcome(id, getResp'[1].response)]_vars

\* a lookup by a one-character prefix was answered 200
C9_Witness ==
  /\ getResp # None /\ getResp[1].route = "video"
  /\ getResp[1].response.code = 200 /\ Len(getResp[1].param) = 1

IsLookup(g) == g # None /\ g[1].route = "video"

\* C10 as stated: two lookups of the same id that are both answered 200
\* return the same downloadUrl, whatever the service did between them.
C10_LookupIdempotent ==
  [][( /\ IsLookup(getResp) /\ IsLookup(getResp')
       /\ getResp[1].param = getResp'[1].param
       /\ getResp[1].response.code = 200 /\ getResp'[1].response.code = 200 ) =>
     getResp[1].response.body.downloadUrl = getResp'[1].response.body.downloadUrl]_vars

\* the entries that start with the id of a lookup, among those it listed
C10_Entries(g) ==
  IF g.listing = None THEN None
  ELSE Some({g.listing[1][i] : i \in {j \in 1..Len(g.listing[1]) : IsPrefixOf(g.param, g.listing[1][j])}})

\* C10 amended: two lookups of the same id return the same answer whenever
\* the artifact directory holds the same entries that start with id at both
\* requests.
C10_LookupIdempotentSameEntries ==
  [][( /\ IsLookup(getResp) /\ IsLookup(getResp')
       /\ getResp[1].param = getResp'[1].param
       /\ C10_Entries(getResp[1]) = C10_Entries(getResp'[1]) ) =>
     getResp[1].response = getResp'[1].response]_vars

\* a lookup was answered while two entries start with its id
C10_Witness ==
  /\ IsLookup(getResp) /\ getResp[1].response.code = 200
  /\ getResp[1].listing # None
  /\ Cardinality(C10_Entries(getResp[1])[1]) >= 2

\* the id in a generated file name: the name without its extension
C11_IdOf(filename) == SubSeq(filename, 1, Len(filename) - Len(extname(filename)))

\* C11: two POST /api/process calls answered 200, in any interleaving, have
\* distinct videoIds and distinct output file names, and within one request
\* the id of the staged file name and the id of the artifact differ.
C11_IdsDistinct ==
  /\ \A r, q \in Reqs :
       (r # q /\ Answered(r) /\ Code(r) = 200 /\ Answered(q) /\ Code(q) = 200) =>
         /\ resp[r][1].body.videoId # resp[q][1].body.videoId
         /\ req[r].output # req[q].output
         /\ resp[r][1].body.downloadUrl # resp[q][1].body.downloadUrl
  /\ \A r \in Reqs :
       (req[r].staged # None /\ req[r].videoId # None) =>
         C11_IdOf(req[r].staged[1]) # req[r].videoId[1]

\* two requests that staged a file were both answered 200
C11_Witness ==
  \E r, q \in Reqs :
    /\ r # q /\ Answered(r) /\ Code(r) = 200 /\ Answered(q) /\ Code(q) = 200
    /\ req[r].staged # None /\ req[q].staged # None

\* the responses on record: of the process calls, of the last lookup and of
\* the last request the middleware answered
Responses ==
  {resp[r][1] : r \in {q \in Reqs : resp[q] # None}}
  \cup (IF IsLookup(getResp) THEN {getResp[1].response} ELSE {})
  \cup (IF gate # None /\ gate[1].response # None THEN {gate[1].response[1]} ELSE {})

ErrorResponses == {e \in Responses : e.code >= 400}

\* C12: every error response with a 4xx status has body status "fail" and
\* every error response with a 5xx status has body status "error".
C12_StatusFollowsClass ==
  \A e \in ErrorResponses :
    /\ "status" \in DOMAIN e.body
    /\ (e.code < 500 => e.body.status = "fail")
    /\ (e.code >= 500 => e.body.status = "error")

\* a step in which the middleware handled a request under /api
GateStep == gate' # None /\ slot' = slot /\ (gate' # gate \/ hits' # hits)

\* the shared-secret policy is enabled: production mode with a configured key
C13_PolicyEnabled == env.NODE_ENV = Some("production") /\ env.API_KEY # None
\* the x-api-key header is absent or not exactly the configured key
C13_KeyIsBad(apiKey) == apiKey = None \/ apiKey # env.API_KEY
C13_Unauthorized ==
  [code |-> 401, body |-> [status |-> "error", message |-> <<"Unauthorized: Invalid API key">>]]

\* C13 as stated: with the policy enabled every request under /api with a
\* bad key is answered 401 and reaches no route; with the policy not enabled
\* no request is answered 401.
C13_BadKeyAnswered401 ==
  [][GateStep =>
       /\ (C13_PolicyEnabled /\ C13_KeyIsBad(gate'[1].apiKey)) =>
            (gate'[1].response = Some(C13_Unauthorized) /\ UNCHANGED routeVars)
       /\ ~C13_PolicyEnabled =>
            (gate'[1].response = None \/ gate'[1].response[1].code # 401)]_vars

\* C13 amended: with the policy enabled every request under /api with a bad
\* key reaches no route: it is answered 401, unless the origin check (500)
\* or the rate limiter (429), which run first, have answered it; with the
\* policy not enabled no request is answered 401.
C13_BadKeyNeverReachesRoutes ==
  [][GateStep =>
       /\ (C13_PolicyEnabled /\ C13_KeyIsBad(gate'[1].apiKey)) =>
            /\ gate'[1].response # None
            /\ \/ gate'[1].response[1] = C13_Unauthorized
               \/ /\ gate'[1].response[1].code = 500
                  /\ gate'[1].response[1].body.message = <<"Not allowed by CORS">>
                  /\ gate'[1].origin # None
               \/ /\ gate'[1].response[1].code = 429
                  /\ hits'[gate'[1].client] > limiterMax
            /\ UNCHANGED routeVars
       /\ ~C13_PolicyEnabled =>
            (gate'[1].response = None \/ gate'[1].response[1].code # 401)]_vars

\* in production a request with a wrong key and an allowed origin was
\* answered 401
C13_Witness ==
  /\ C13_PolicyEnabled /\ gate # None
  /\ gate[1].apiKey = Some("k2") /\ gate[1].origin = Some("https://app.example.com")
  /\ gate[1].response = Some(C13_Unauthorized)

\* the configured set of allowed origins
C14_AllowedSet ==
  IF env.ALLOWED_ORIGINS = None THEN {"http://localhost:3000"}
  ELSE {env.ALLOWED_ORIGINS[1][i] : i \in 1..Len(env.ALLOWED_ORIGINS[1])}

\* C14: a request that declares an Origin outside the configured set is
\* rejected before any route handler runs (nothing staged, no transcode
\* launched, no lookup performed, not even counted by the limiter), and a
\* request that declares an allowed origin, or none, goes on to the limiter.
C14_OriginGate ==
  [][GateStep =>
       IF gate'[1].origin # None /\ gate'[1].origin[1] \notin C14_AllowedSet
       THEN /\ gate'[1].response # None
            /\ gate'[1].response[1].code = 500
            /\ gate'[1].response[1].body.message = <<"Not allowed by CORS">>
            /\ UNCHANGED <<routeVars, hits>>
       ELSE /\ hits'[gate'[1].client] = hits[gate'[1].client] + 1
            /\ \/ gate'[1].response = None
               \/ gate'[1].response[1].code # 500]_vars

\* a POST or GET that declared an origin outside the set was answered 500
C14_Witness ==
  /\ gate # None /\ gate[1].origin = Some("https://evil.example.net")
  /\ gate[1].response # None /\ gate[1].response[1].code = 500
  /\ gate[1].apiKey = env.API_KEY

\* what the limiter does with a request, in excess or not: a request in
\* excess (its client has already been counted max times in the current
\* window) is answered 429 with the fixed message and reaches no route, and
\* no other request is answered 429
C15_ExcessAnswered429 ==
  GateStep =>
    LET c == gate'[1].client IN
    IF hits'[c] = hits[c] + 1 /\ hits[c] >= (IF env.NODE_ENV = Some("production") THEN 60 ELSE 100)
    THEN /\ gate'[1].response =
              Some([code |-> 429,
                    body |-> [text |-> "Too many requests from this IP, please try again later"]])
         /\ UNCHANGED <<routeVars, admitted>>
    ELSE gate'[1].response = None \/ gate'[1].response[1].code # 429

C16_WaitDoesNotBlock ==
  /\ (\E r \in Reqs : req[r].pc = "transcoding") =>
       ENABLED (\E id \in GateLookupIds : getVideoController(id))
  /\ \A r \in Reqs :
       req[r].pc = "transcoding" =>
         \A q \in Reqs \ {r} :
           /\ (req[q].pc = "idle" /\ \A p \in Reqs : p < q => req[p].pc # "idle") =>
                ENABLED uploadMiddleware(q, "none", None)
           /\ (req[q].pc = "uploaded" /\ (req[q].file = None \/ uuidv4(usedIds) # {})) =>
                ENABLED processVideoController(q)
           /\ (req[q].pc = "transcoding" /\ OutputExists(q)) => ENABLED ffmpegEnd(q)

\* a lookup returned the output that request 1 is still writing: it was
\* answered while request 1 waited for its transcoder; request 2 is answered
C16_Witness ==
  /\ req[1].pc = "transcoding" /\ req[1].wrote
  /\ IsLookup(getResp) /\ getResp[1].response.code = 200
  /\ getResp[1].response.body.filename = req[1].output[1]
  /\ MaxReq >= 2 /\ Answered(2) /\ Code(2) = 200

\* C17: once a POST /api/process has answered 200 for an artifact, the
\* artifact stays in the artifact directory as its transcoder finished it:
\* no later process call, lookup or download deletes, overwrites or renames
\* it.
C17_CompletedArtifactsStay ==
  \A r \in Reqs :
    (Answered(r) /\ Code(r) = 200) =>
      [dir |-> ProcessDir, name |-> req[r].output[1], by |-> r, kind |-> "complete"] \in files

\* one process call was answered 200, another failed after its transcoder
\* had written to the artifact directory, and a lookup and no more ran
C17_Witness ==
  \E r, q \in Reqs :
    /\ Answered(r) /\ Code(r) = 200
    /\ Answered(q) /\ Code(q) = 500 /\ req[q].wrote
    /\ IsLookup(getResp)

\* C18: in every 200 response of POST /api/process the file name in
\* downloadUrl is the returned videoId followed by the original extension,
\* and in every 200 response of GET /api/video/:id the returned filename
\* begins with the returned videoId.
C18_FilenameBeginsWithId ==
  /\ \A r \in Reqs :
       (Answered(r) /\ Code(r) = 200) =>
         LET body == resp[r][1].body
             filename == body.downloadUrl.path[Len(body.downloadUrl.path)]
         IN /\ IsPrefixOf(body.videoId, filename)
            /\ filename = body.videoId \o extname(req[r].upload[1].originalname)
  /\ (IsLookup(getResp) /\ getResp[1].response.code = 200) =>
       /\ IsPrefixOf(getResp[1].response.body.videoId, getResp[1].response.body.filename)
       /\ getResp[1].response.body.downloadUrl.path = <<"downloads", getResp[1].response.body.filename>>

\* a process call was answered 200 and a lookup by a shorter id found its
\* artifact
C18_Witness ==
  \E r \in Reqs :
    /\ Answered(r) /\ Code(r) = 200
    /\ IsLookup(getResp) /\ getResp[1].response.code = 200
    /\ getResp[1].response.body.filename = req[r].output[1]
    /\ Len(getResp[1].param) < Len(req[r].videoId[1])

\* C19: when an upload is rejected for exceeding the size ceiling, the
\* message of the 400 response reports the limit that is enforced, in
\* megabytes (the enforced byte limit divided by 1,000,000), whether the
\* limit is set in the environment or the default of 100000000 bytes applies.
C19_MessageReportsEnforcedLimit ==
  \A r \in Reqs :
    (Answered(r) /\ req[r].staged # None /\ req[r].upload[1].size > fileSizeLimit) =>
      /\ Code(r) = 400
      /\ resp[r][1].body.message =
           <<"File too large. Maximum size is ", ToString(fileSizeLimit \div 1000000), "MB">>

\* C20: an error response carries a stack field only when the service runs
\* in development mode (NODE_ENV is "development"); in production mode and
\* in any other mode no error response carries one.
C20_StackOnlyInDevelopment ==
  \A e \in ErrorResponses :
    "stack" \in DOMAIN e.body => env.NODE_ENV = Some("development")

\* in development mode a failed transcode was answered with a stack
C20_Witness ==
  \E r \in Reqs :
    /\ Answered(r) /\ Code(r) = 500 /\ req[r].diag # None
    /\ "stack" \in DOMAIN resp[r][1].body

\* ---------------------------------------------------------------------
\* C21: a staged upload lies in the staging directory under a fresh id
\* followed by the extension of the client's file name, the artifact lies in
\* the artifact directory under the artifact id followed by that extension,
\* and neither name holds a path separator: whatever the client's file name
\* is, no file is placed outside the two directories
C21_InsideDirectory(dir, name) ==
  /\ \A i \in 1..Len(name) : name[i] # SLASH
  /\ name \notin {<<>>, <<DOT>>, <<DOT, DOT>>}
  /\ \A f \in files : f.name = name => f.dir = dir

C21_ClientNameConfined ==
  /\ \A f \in files : f.dir \in {UploadDir, ProcessDir}
  /\ \A r \in Reqs :
       /\ req[r].staged # None =>
            /\ \E t \in usedIds :
                 req[r].staged[1] = t \o extname(req[r].upload[1].originalname)
            /\ C21_InsideDirectory(UploadDir, req[r].staged[1])
       /\ req[r].output # None =>
            /\ req[r].output[1] = req[r].videoId[1] \o extname(req[r].upload[1].originalname)
            /\ C21_InsideDirectory(ProcessDir, req[r].output[1])

\* C21 witness: a file named "../v.m" by its client is staged, and the
\* artifact of a file named "v.m/.." is written
C21_Witness ==
  \E r, q \in Reqs :
    /\ req[r].upload # None
    /\ req[r].upload[1].originalname = <<DOT, DOT, SLASH, 118, DOT, 109>>
    /\ StagedExists(r)
    /\ req[q].upload # None
    /\ req[q].upload[1].originalname = <<118, DOT, 109, SLASH, DOT, DOT>>
    /\ OutputExists(q)

\* ---------------------------------------------------------------------
\* C22: GET /api/video/:id only reads: whether it answers 200, 404 or 500,
\* the step that answers it launches no transcoder and leaves the files, the
\* directories and every process call as they were
C22_LookupReadOnly ==
  [][(getResp' # getResp /\ IsLookup(getResp')) =>
       /\ getResp'[1].response.code \in {200, 404, 500}
       /\ UNCHANGED <<files, dirs, req, resp, usedIds>>]_vars

\* C22 witness: a lookup was answered while a staged upload and the output
\* of its running transcoder were on disk
C22_Witness ==
  /\ IsLookup(getResp)
  /\ \E r \in Reqs : req[r].pc = "transcoding" /\ StagedExists(r) /\ OutputExists(r)

\* ---------------------------------------------------------------------
\* C23: once POST /api/process has answered 200 with (videoId, downloadUrl),
\* GET /api/video/{videoId} answers 200 with the same downloadUrl and with
\* filename = videoId followed by the original extension, in every later
\* state, whatever the other process calls do in between
C23_RoundTrip ==
  \A r \in Reqs :
    (Answered(r) /\ Code(r) = 200) =>
      LET answer == getVideoResponse(resp[r][1].body.videoId) IN
      /\ answer.code = 200
      /\ answer.body.downloadUrl = resp[r][1].body.downloadUrl
      /\ answer.body.filename =
           resp[r][1].body.videoId \o extname(req[r].upload[1].originalname)

\* C23 witness: the id a process call returned was looked up after the
\* answer, while the transcoder of another call was writing its output
C23_Witness ==
  \E r, q \in Reqs :
    /\ Answered(r) /\ Code(r) = 200
    /\ IsLookup(getResp) /\ getResp[1].param = resp[r][1].body.videoId
    /\ getResp[1].response.code = 200
    /\ q # r /\ req[q].pc = "transcoding" /\ OutputExists(q)

C29_ErrorBody(r) ==
  /\ resp[r][1].code \in {400, 500}
  /\ resp[r][1].body.status \in {"fail", "error"}
C29_SuccessBody(r) ==
  /\ resp[r][1].code = 200
  /\ resp[r][1].body.success
C29_ExactlyOneResponse ==
  /\ [][\A r \in Reqs : resp[r] # None => resp'[r] = resp[r]]_vars
  /\ [](\A r \in Reqs :
          /\ Answered(r) <=> req[r].pc = "done"
          /\ Answered(r) => (C29_SuccessBody(r) /\ ~C29_ErrorBody(r))
                              \/ (C29_ErrorBody(r) /\ ~C29_SuccessBody(r)))
  /\ \A r \in Reqs : (req[r].pc # "idle") ~> Answered(r)

\* C29 witness: one call was answered 200 and another was answered by the
\* error handler after its transcoder failed
C29_Witness ==
  \E r, q \in Reqs :
    /\ Answered(r) /\ Code(r) = 200 /\ req[r].launches = 1
    /\ Answered(q) /\ Code(q) = 500 /\ req[q].launches = 1

\* ---------------------------------------------------------------------
\* C25: an uncaught exception or an unhandled rejection ends the process
\* with exit code 1, in production as in every other mode, and from then on
\* every call in flight stays as it was: no response is written, no file is
\* cleaned up
C25_InFlight(r) == req[r].pc \in {"uploaded", "transcoding"}
C25_UncaughtExits ==
  /\ [](proc.cause # None => (~proc.alive /\ proc.exitCode = Some(1)))
  /\ [][~proc.alive => UNCHANGED <<files, dirs, req, resp>>]_vars
  /\ [](~proc.alive => \A r \in Reqs : C25_InFlight(r) => ~Answered(r))

\* C25 witness: in production the process exited with code 1 while a
\* transcode was running, its staged input and its partial output on disk
C25_Witness ==
  /\ isProduction /\ ~proc.alive /\ proc.exitCode = Some(1)
  /\ \E r \in Reqs : req[r].pc = "transcoding" /\ StagedExists(r) /\ OutputExists(r)
                       /\ ~Answered(r)

\* ---------------------------------------------------------------------
\* C27: installFfmpeg never rejects and resolves a boolean, true exactly
\* when one of the installation methods it ran succeeded, on every platform;
\* on Linux the package managers that are present are run in the order
\* apt-get, apt, yum, dnf, zypper up to the first that succeeds, and npm is
\* run when no package manager is present
C27_Order == <<"apt-get", "apt", "yum", "dnf", "zypper">>
C27_Succeeds(h, m) ==
  IF m = "npm" THEN h.npm = "ok"
  ELSE IF m = "brew" THEN h.brew = "ok"
  ELSE m \in h.installOk
C27_Present(h) == LET Has(m) == m \in h.which IN SelectSeq(C27_Order, Has)
C27_LinuxRuns(h) ==
  LET present == C27_Present(h)
      wins == {i \in 1..Len(present) : present[i] \in h.installOk}
  IN IF present = <<>> THEN <<"npm">>
     ELSE IF wins = {} THEN present
     ELSE SubSeq(present, 1, CHOOSE i \in wins : \A j \in wins : i <= j)
C27_InstallSettlesBoolean ==
  (boot # None /\ boot[1].install # None) =>
    LET h == boot[1].host
        o == boot[1].install[1]
    IN /\ o.settled = "resolved"
       /\ o.value \in BOOLEAN
       /\ o.value <=> \E i \in 1..Len(o.tried) : C27_Succeeds(h, o.tried[i])
       /\ o.value => C27_Succeeds(h, o.tried[Len(o.tried)])
       /\ h.platform = "linux" => o.tried = C27_LinuxRuns(h)

\* C27 witness: on Linux apt-get and yum are present, apt-get fails and yum
\* installs; and the installer was run
C27_Witness ==
  /\ boot # None /\ boot[1].install # None
  /\ boot[1].host.platform = "linux"
  /\ boot[1].host.which = {"apt-get", "yum", "zypper"}
  /\ boot[1].host.installOk = {"yum", "zypper"}
  /\ boot[1].install[1].tried = <<"apt-get", "yum">>
  /\ boot[1].install[1].value

\* ---------------------------------------------------------------------
\* C26: checkFfmpeg settles, and it resolves true exactly when FFmpeg works
\* at the moment it settles: when FFmpeg is not on PATH but the bundled
\* binary is found and its verification succeeds the result is true, in
\* whatever order the verification callback and the installation come; and
\* an installation is attempted only if FFmpeg was not found
C26_Quiescent == boot[1].pc = "end" /\ boot[1].verify = None
C26_CheckReportsWorking ==
  boot # None =>
    /\ C26_Quiescent => boot[1].result # None
    /\ boot[1].result # None => boot[1].result[1].value = boot[1].result[1].working
    /\ (C26_Quiescent /\ boot[1].found /\ boot[1].host.bundled = "working") =>
         boot[1].result[1].value
    /\ boot[1].install # None => (~boot[1].host.onPath /\ ~boot[1].found)

\* ---------------------------------------------------------------------
\* C28: every file name returned by a lookup answered 200 names an artifact
\* whose transcode completed: at the step of the answer the file is in the
\* artifact directory as its transcoder finished it, never the output of a
\* transcode that is still running
C28_Completed(fs, name) ==
  \E f \in fs : f.dir = ProcessDir /\ f.name = name /\ f.kind = "complete"
C28_LookupReturnsCompleted ==
  [][(getResp' # getResp /\ IsLookup(getResp') /\ getResp'[1].response.code = 200) =>
       C28_Completed(files', getResp'[1].response.body.filename)]_vars

\* ---------------------------------------------------------------------
\* C30: the shared secret and the rate ceiling cover /api only: in
\* production, GET /downloads/:filename of an existing artifact, from a
\* client that sends no API key and has used up its /api quota, is answered
\* with the file and Content-Disposition attachment; filename="<filename>"
C30_QuotaExhausted(c) == limiterRejects(hits[c] + 1)
C30_DownloadsOutsideGate ==
  [][\A n \in DownloadNames :
       ( /\ isProduction /\ apiKeyEnabled
         /\ C30_QuotaExhausted(GateClient)
         /\ existsSync(files, ProcessDir, n)
         /\ downloadRequest(GateClient, None, None, n) ) =>
       /\ gate'[1].response = None
       /\ getResp'[1].route = "downloads" /\ getResp'[1].param = n
       /\ getResp'[1].response.code = 200
       /\ getResp'[1].response.file[1].dir = ProcessDir
       /\ getResp'[1].response.file[1].name = n
       /\ getResp'[1].response.disposition = <<"attachment; filename=", n>>
       /\ hits' = hits]_vars

\* C30 witness: in production, the last request through the middleware
\* came without a key from the client whose quota is used up, and it was
\* answered with the finished artifact
C30_Witness ==
  /\ isProduction /\ apiKeyEnabled /\ C30_QuotaExhausted(GateClient)
  /\ gate # None /\ gate[1].client = GateClient /\ gate[1].apiKey = None
  /\ gate[1].response = None
  /\ getResp # None /\ getResp[1].route = "downloads"
  /\ getResp[1].response.code = 200
  /\ getResp[1].response.file[1].kind = "complete"

====
